---- MODULE Spec2Model ----
(***************************************************************************)
(* State-machine model of contracts/review_guard_fhe.sol (ReviewGuardFHE). *)
(*                                                                         *)
(* Every external function is modelled twice over the same definitions:    *)
(* as an operator from the current storage and the call's inputs to the    *)
(* call's outcome (its error kind and the storage it leaves), and as the   *)
(* action that commits that outcome.  A transaction that reverts leaves    *)
(* every variable as it was.  The FHE library is an external collaborator: *)
(* its accept / reject verdicts are inputs of the calls.                   *)
(***************************************************************************)
EXTENDS Integers, Sequences, FiniteSets, TLC

VARIABLES
    employees,            \* mapping(string => Employee), the reviews nested inside
    employeeExists,       \* mapping(string => bool)
    departmentEmployees,  \* mapping(uint256 => string[])
    acl,                  \* handles passed to FHE.allowThis / makePubliclyDecryptable
    now,                  \* block.timestamp of the transaction being executed
    finalized,            \* history: employees for which calculateFinalScore succeeded
    collapsed,            \* history: per employee, the totalScore found by each successful
                          \* calculateFinalScore since the employee's last successful verifyReview
    txCount,              \* history: number of transactions that succeeded
    registered,           \* history: the employee ids in the order addEmployee succeeded
    attested              \* history: the <<handle, clear value>> pairs FHE.checkSignatures
                          \* was called with and accepted

vars == <<employees, employeeExists, departmentEmployees, acl, now, finalized,
          collapsed, txCount, registered, attested>>

---------------------------------------------------------------------------
\* Bounds of the model

\* block.timestamp ranges over 1..MaxTime
MaxTime == 2

\* a run of Spec holds at most MaxTx successful transactions
MaxTx == 4

\* a run of SpecDeep (one employee) holds at most MaxTxDeep of them
MaxTxDeep == 7

\* width, in bits, of the unsigned words standing for uint256
UintBits == 6

MaxUint == 2 ^ UintBits - 1

\* Inputs the calls are drawn from
EmployeeIds == {"E1", "E2"}

Names == {"Alice"}

\* the names addEmployee is tried with; a call with a name outside Names only
\* ever meets a registered id
NamesTried == Names \cup {"Bob"}

DepartmentIds == {10, 20}

\* the registrations <<employeeId, departmentId>> that are made: departmentId
\* is only ever compared and used as a key, so with E1 in department 10 the
\* cases are E2 in the same department and E2 in the other
Registrations == { <<"E1", 10>>, <<"E2", 10>>, <<"E2", 20>> }

Senders == {"0xA", "0xB"}

\* the accounts that relay a decryption to verifyReview, which does not read
\* msg.sender
Relayers == {"0xC"}

\* submissions <<msg.sender, encryptedScore, weight>>; the externalEuint32 0 is
\* the uninitialized handle
Submissions == { <<"0xA", 1, 2>>, <<"0xB", 2, 3>>, <<"0xA", 0, 3>>, <<"0xB", 1, 0>> }

\* cleartext scores carried by abiEncodedClearValue (uint32)
ClearValues == {6, 8}

\* a clear value whose product with any weight above 1 exceeds the word
BigValue == (MaxUint + 1) \div 2

\* the clear values the outcome of verifyReview is computed for; with
\* BigValue the call overflows on every submitted review and is reverted
ValuesTried == ClearValues \cup {BigValue}

Times == 1 .. MaxTime

---------------------------------------------------------------------------
\* Solidity zero values

ZeroAddress == "0x0"

DefaultReview ==
    [ encryptedScore |-> 0,
      weight         |-> 0,
      departmentId   |-> 0,
      reviewer       |-> ZeroAddress,
      timestamp      |-> 0,
      decryptedScore |-> 0,
      isVerified     |-> FALSE ]

\* variant: the timestamp is left out of the key
DeriveReviewId_NoTimestamp(employeeId, timestamp) == employeeId \o "_" \o ToString(1)

\* string(abi.encodePacked(employeeId, "_", uint256(block.timestamp)))
DeriveReviewId(employeeId, timestamp) ==
    employeeId \o "_" \o ToString(timestamp)

\* the keys of the reviews mappings: every derivable id
ReviewIds == { DeriveReviewId(e, t) : e \in EmployeeIds, t \in Times }

\* the review keys verifyReview is called with for an employee
ReviewIdsOf(employeeId) == { DeriveReviewId(employeeId, t) : t \in Times }

DefaultEmployee ==
    [ employeeId   |-> "",
      name         |-> "",
      totalScore   |-> 0,
      reviewCount  |-> 0,
      departmentId |-> 0,
      reviews      |-> [r \in ReviewIds |-> DefaultReview] ]

---------------------------------------------------------------------------
\* FHE library (external): verdicts are inputs

\* FHE.fromExternal(encryptedScore, inputProof): reverts on a rejected proof,
\* otherwise yields the handle (0 when the input is the uninitialized handle)
FromExternal(externalHandle, proofOk) ==
    [ reverted |-> ~proofOk, handle |-> externalHandle ]

\* FHE.isInitialized
IsInitialized(handle) == handle # 0

\* FHE.checkSignatures(cts, abiEncodedClearValue, decryptionProof): reverts
\* unless the proof attests the clear value for the handle; the verdict is
\* the input signaturesOk
CheckSignaturesReverts(handle, clearValue, signaturesOk) == ~signaturesOk

\* FHE.allowThis(h); FHE.makePubliclyDecryptable(h)
Publish(a, handle) ==
    [ a EXCEPT !.allowedThis         = @ \cup {handle},
               !.publiclyDecryptable = @ \cup {handle} ]

---------------------------------------------------------------------------
\* Outcomes of a call: the error kind ("ok" when the transaction succeeds) and
\* the storage after it

\* require(...) failed: the transaction reverts, the storage is as before
Reverted(err) ==
    [ err                 |-> err,
      employees           |-> employees,
      employeeExists      |-> employeeExists,
      departmentEmployees |-> departmentEmployees,
      acl                 |-> acl ]

Succeeded(emps, exists, depts, a) ==
    [ err                 |-> "ok",
      employees           |-> emps,
      employeeExists      |-> exists,
      departmentEmployees |-> depts,
      acl                 |-> a ]

---------------------------------------------------------------------------
\* addEmployee

\* variant: a registered id is accepted again
AddEmployeeError_NoCheck(employeeId) == "ok"

AddEmployeeError(employeeId) ==
    IF employeeExists[employeeId] THEN "AlreadyExists" ELSE "ok"

NewEmployee(old, employeeId, name, departmentId) ==
    [ old EXCEPT !.employeeId   = employeeId,
                 !.name         = name,
                 !.departmentId = departmentId,
                 !.totalScore   = 0,
                 !.reviewCount  = 0 ]

\* variant: the id is put at the front of the department's array
addEmployee_Prepends(employeeId, name, departmentId) ==
    LET err == AddEmployeeError(employeeId) IN
    IF err # "ok" THEN Reverted(err)
    ELSE Succeeded(
           [employees EXCEPT ![employeeId] = NewEmployee(@, employeeId, name, departmentId)],
           [employeeExists EXCEPT ![employeeId] = TRUE],
           [departmentEmployees EXCEPT ![departmentId] = <<employeeId>> \o @],
           acl)

\* variant: the id is not pushed on the department's array
addEmployee_NoIndex(employeeId, name, departmentId) ==
    LET err == AddEmployeeError(employeeId) IN
    IF err # "ok" THEN Reverted(err)
    ELSE Succeeded(
           [employees EXCEPT ![employeeId] = NewEmployee(@, employeeId, name, departmentId)],
           [employeeExists EXCEPT ![employeeId] = TRUE],
           departmentEmployees,
           acl)

addEmployee(employeeId, name, departmentId) ==
    LET err == AddEmployeeError(employeeId) IN
    IF err # "ok" THEN Reverted(err)
    ELSE Succeeded(
           [employees EXCEPT ![employeeId] = NewEmployee(@, employeeId, name, departmentId)],
           [employeeExists EXCEPT ![employeeId] = TRUE],
           [departmentEmployees EXCEPT ![departmentId] = Append(@, employeeId)],
           acl)

---------------------------------------------------------------------------
\* submitReview

\* variant: the department of the submission is never compared
SubmitReviewError_NoDeptCheck(employeeId, externalHandle, proofOk, weight, departmentId) ==
    IF ~employeeExists[employeeId] THEN "NotFound"
    ELSE IF ~(weight > 0) THEN "InvalidInput"
    ELSE IF FromExternal(externalHandle, proofOk).reverted THEN "InvalidProof"
    ELSE IF ~IsInitialized(FromExternal(externalHandle, proofOk).handle) THEN "InvalidProof"
    ELSE "ok"

SubmitReviewError(employeeId, externalHandle, proofOk, weight, departmentId) ==
    IF ~employeeExists[employeeId] THEN "NotFound"
    ELSE IF ~(weight > 0) THEN "InvalidInput"
    ELSE IF FromExternal(externalHandle, proofOk).reverted THEN "InvalidProof"
    ELSE IF ~IsInitialized(FromExternal(externalHandle, proofOk).handle) THEN "InvalidProof"
    ELSE IF employees[employeeId].departmentId # departmentId THEN "DepartmentMismatch"
    ELSE "ok"

\* variant: the decrypted score and the verified flag of the slot are kept
NewReview_KeepsVerdict(old, handle, weight, departmentId, sender, timestamp) ==
    [ old EXCEPT !.encryptedScore = handle,
                 !.weight         = weight,
                 !.departmentId   = departmentId,
                 !.reviewer       = sender,
                 !.timestamp      = timestamp ]

NewReview(old, handle, weight, departmentId, sender, timestamp) ==
    [ old EXCEPT !.encryptedScore = handle,
                 !.weight         = weight,
                 !.departmentId   = departmentId,
                 !.reviewer       = sender,
                 !.timestamp      = timestamp,
                 !.decryptedScore = 0,
                 !.isVerified     = FALSE ]

\* variant: the review is stored before the department is compared and stays
\* stored when the comparison fails
submitReview_StoresThenChecks(sender, employeeId, externalHandle, proofOk, weight, departmentId) ==
    LET err == SubmitReviewError(employeeId, externalHandle, proofOk, weight, departmentId)
        reviewId == DeriveReviewId(employeeId, now)
        handle == FromExternal(externalHandle, proofOk).handle
    IN
    IF err \notin {"ok", "DepartmentMismatch"} THEN Reverted(err)
    ELSE [ Succeeded(
             [employees EXCEPT ![employeeId].reviews[reviewId] =
                 NewReview(@, handle, weight, departmentId, sender, now)],
             employeeExists,
             departmentEmployees,
             Publish(acl, handle))
           EXCEPT !.err = err ]

submitReview(sender, employeeId, externalHandle, proofOk, weight, departmentId) ==
    LET err == SubmitReviewError(employeeId, externalHandle, proofOk, weight, departmentId)
        reviewId == DeriveReviewId(employeeId, now)
        handle == FromExternal(externalHandle, proofOk).handle
    IN
    IF err # "ok" THEN Reverted(err)
    ELSE Succeeded(
           [employees EXCEPT ![employeeId].reviews[reviewId] =
               NewReview(@, handle, weight, departmentId, sender, now)],
           employeeExists,
           departmentEmployees,
           Publish(acl, handle))

---------------------------------------------------------------------------
\* verifyReview

\* variant: the signatures are checked before the isVerified flag
VerifyReviewError_SignaturesFirst(employeeId, reviewId, clearValue, signaturesOk) ==
    LET employee == employees[employeeId]
        review == employee.reviews[reviewId]
    IN
    IF ~employeeExists[employeeId] THEN "NotFound"
    ELSE IF CheckSignaturesReverts(review.encryptedScore, clearValue, signaturesOk)
         THEN "InvalidProof"
    ELSE IF review.isVerified THEN "AlreadyVerified"
    ELSE IF clearValue * review.weight > MaxUint THEN "Panic"
    ELSE IF employee.totalScore + clearValue * review.weight > MaxUint THEN "Panic"
    ELSE IF employee.reviewCount + 1 > MaxUint THEN "Panic"
    ELSE "ok"

\* variant: FHE.checkSignatures is not called
VerifyReviewError_NoSignatures(employeeId, reviewId, clearValue, signaturesOk) ==
    LET employee == employees[employeeId]
        review == employee.reviews[reviewId]
    IN
    IF ~employeeExists[employeeId] THEN "NotFound"
    ELSE IF review.isVerified THEN "AlreadyVerified"
    ELSE IF clearValue * review.weight > MaxUint THEN "Panic"
    ELSE IF employee.totalScore + clearValue * review.weight > MaxUint THEN "Panic"
    ELSE IF employee.reviewCount + 1 > MaxUint THEN "Panic"
    ELSE "ok"

\* variant: the arithmetic is not checked
VerifyChecks_Unchecked(employee, reviewId, clearValue, signaturesOk) ==
    LET review == employee.reviews[reviewId] IN
    IF review.isVerified THEN "AlreadyVerified"
    ELSE IF CheckSignaturesReverts(review.encryptedScore, clearValue, signaturesOk)
         THEN "InvalidProof"
    ELSE "ok"

\* the checks of verifyReview on the Employee found in storage
VerifyChecks(employee, reviewId, clearValue, signaturesOk) ==
    LET review == employee.reviews[reviewId] IN
    IF review.isVerified THEN "AlreadyVerified"
    ELSE IF CheckSignaturesReverts(review.encryptedScore, clearValue, signaturesOk)
         THEN "InvalidProof"
    ELSE IF clearValue * review.weight > MaxUint THEN "Panic"
    ELSE IF employee.totalScore + clearValue * review.weight > MaxUint THEN "Panic"
    ELSE IF employee.reviewCount + 1 > MaxUint THEN "Panic"
    ELSE "ok"

\* variant: an employee whose score was finalized takes no more verifications
VerifyReviewError_ClosedAfterFinal(employeeId, reviewId, clearValue, signaturesOk) ==
    IF ~employeeExists[employeeId] THEN "NotFound"
    ELSE IF employeeId \in finalized THEN "Finalized"
    ELSE VerifyChecks(employees[employeeId], reviewId, clearValue, signaturesOk)

VerifyReviewError(employeeId, reviewId, clearValue, signaturesOk) ==
    IF ~employeeExists[employeeId] THEN "NotFound"
    ELSE VerifyChecks(employees[employeeId], reviewId, clearValue, signaturesOk)

\* variant: the handle is cleared once its value is known
MarkVerified_ClearsHandle(review, decodedValue) == [ review EXCEPT !.encryptedScore = 0, !.decryptedScore = decodedValue, !.isVerified = TRUE ]

\* review.decryptedScore = decodedValue; review.isVerified = true
MarkVerified(review, decodedValue) ==
    [ review EXCEPT !.decryptedScore = decodedValue, !.isVerified = TRUE ]

\* variant: the weight is left out of the accumulation
AddScore_Unweighted(totalScore, decodedValue, weight) == totalScore + decodedValue

\* variant: the product is assigned, not added
AddScore_Assigns(totalScore, decodedValue, weight) == decodedValue * weight

\* employee.totalScore += decodedValue * review.weight
AddScore(totalScore, decodedValue, weight) == totalScore + decodedValue * weight

\* employee.reviewCount++
IncrementCount(reviewCount) == reviewCount + 1

\* the writes of verifyReview on the Employee found in storage
VerifiedEmployee(employee, reviewId, clearValue) ==
    [ employee EXCEPT
        !.reviews[reviewId] = MarkVerified(@, clearValue),
        !.totalScore = AddScore(@, clearValue, employee.reviews[reviewId].weight),
        !.reviewCount = IncrementCount(@) ]

\* variant: only the reviewer of the review may complete its verification
verifyReview_ReviewerOnly(sender, employeeId, reviewId, clearValue, signaturesOk) ==
    LET err == VerifyReviewError(employeeId, reviewId, clearValue, signaturesOk) IN
    IF err = "NotFound" THEN Reverted(err)
    ELSE IF sender # employees[employeeId].reviews[reviewId].reviewer THEN Reverted("Unauthorized")
    ELSE IF err # "ok" THEN Reverted(err)
    ELSE Succeeded(
           [employees EXCEPT ![employeeId] = VerifiedEmployee(@, reviewId, clearValue)],
           employeeExists,
           departmentEmployees,
           acl)

verifyReview(sender, employeeId, reviewId, clearValue, signaturesOk) ==
    LET err == VerifyReviewError(employeeId, reviewId, clearValue, signaturesOk) IN
    IF err # "ok" THEN Reverted(err)
    ELSE Succeeded(
           [employees EXCEPT ![employeeId] = VerifiedEmployee(@, reviewId, clearValue)],
           employeeExists,
           departmentEmployees,
           acl)

---------------------------------------------------------------------------
\* calculateFinalScore

\* variant: the employee's existence is not required
CalculateFinalScoreError_NoExistenceCheck(employeeId) ==
    IF ~(employees[employeeId].reviewCount > 0) THEN "EmptyAggregation"
    ELSE "ok"

\* variant: a second collapse of the same employee is refused
CalculateFinalScoreError_OnceOnly(employeeId) ==
    IF ~employeeExists[employeeId] THEN "NotFound"
    ELSE IF ~(employees[employeeId].reviewCount > 0) THEN "EmptyAggregation"
    ELSE IF employeeId \in finalized THEN "AlreadyFinalized"
    ELSE "ok"

CalculateFinalScoreError(employeeId) ==
    IF ~employeeExists[employeeId] THEN "NotFound"
    ELSE IF ~(employees[employeeId].reviewCount > 0) THEN "EmptyAggregation"
    ELSE "ok"

\* variant: the quotient is rounded up
FinalScore_RoundUp(totalScore, reviewCount) ==
    (totalScore + reviewCount - 1) \div reviewCount

\* uint256 finalScore = employee.totalScore / employee.reviewCount
FinalScore(totalScore, reviewCount) == totalScore \div reviewCount

calculateFinalScore(employeeId) ==
    LET err == CalculateFinalScoreError(employeeId) IN
    IF err # "ok" THEN Reverted(err)
    ELSE Succeeded(
           [employees EXCEPT ![employeeId].totalScore =
               FinalScore(@, employees[employeeId].reviewCount)],
           employeeExists,
           departmentEmployees,
           acl)

---------------------------------------------------------------------------
\* The views: the error kind and the tuple returned

getEmployee(employeeId) ==
    LET employee == employees[employeeId] IN
    IF ~employeeExists[employeeId] THEN [err |-> "NotFound", value |-> <<>>]
    ELSE [ err   |-> "ok",
           value |-> << employee.name, employee.totalScore,
                        employee.reviewCount, employee.departmentId >> ]

getReview(employeeId, reviewId) ==
    LET review == employees[employeeId].reviews[reviewId] IN
    IF ~employeeExists[employeeId] THEN [err |-> "NotFound", value |-> <<>>]
    ELSE [ err   |-> "ok",
           value |-> << review.weight, review.departmentId, review.reviewer,
                        review.timestamp, review.decryptedScore, review.isVerified >> ]

getDepartmentEmployees(departmentId) ==
    [ err |-> "ok", value |-> departmentEmployees[departmentId] ]

---------------------------------------------------------------------------
\* The transactions

Init ==
    /\ employees = [e \in EmployeeIds |-> DefaultEmployee]
    /\ employeeExists = [e \in EmployeeIds |-> FALSE]
    /\ departmentEmployees = [d \in DepartmentIds |-> <<>>]
    /\ acl = [allowedThis |-> {}, publiclyDecryptable |-> {}]
    /\ now = 1
    /\ finalized = {}
    /\ collapsed = [e \in EmployeeIds |-> <<>>]
    /\ txCount = 0
    /\ registered = <<>>
    /\ attested = {}

\* the storage becomes what the call left; a reverted call leaves it as it was
Commit(outcome) ==
    /\ employees' = outcome.employees
    /\ employeeExists' = outcome.employeeExists
    /\ departmentEmployees' = outcome.departmentEmployees
    /\ acl' = outcome.acl
    /\ txCount' = IF outcome.err = "ok" THEN txCount + 1 ELSE txCount
    /\ now' = now

TxAddEmployee(employeeId, name, departmentId) ==
    LET outcome == addEmployee(employeeId, name, departmentId) IN
    /\ Commit(outcome)
    /\ registered' = IF outcome.err = "ok" THEN Append(registered, employeeId)
                     ELSE registered
    /\ UNCHANGED <<finalized, collapsed, attested>>

TxSubmitReview(sender, employeeId, externalHandle, proofOk, weight, departmentId) ==
    /\ Commit(submitReview(sender, employeeId, externalHandle, proofOk, weight, departmentId))
    /\ UNCHANGED <<finalized, collapsed, registered, attested>>

\* what FHE.checkSignatures accepts in a call of verifyReview: the pair of the
\* stored handle and the clear value, when the call gets as far as the check
\* and the verdict is to accept
Attestation(employeeId, reviewId, clearValue, signaturesOk) ==
    LET review == employees[employeeId].reviews[reviewId] IN
    IF /\ employeeExists[employeeId]
       /\ ~review.isVerified
       /\ ~CheckSignaturesReverts(review.encryptedScore, clearValue, signaturesOk)
    THEN { <<review.encryptedScore, clearValue>> }
    ELSE {}

TxVerifyReview(sender, employeeId, reviewId, clearValue, signaturesOk) ==
    LET outcome == verifyReview(sender, employeeId, reviewId, clearValue, signaturesOk) IN
    /\ Commit(outcome)
    /\ collapsed' = IF outcome.err = "ok"
                    THEN [collapsed EXCEPT ![employeeId] = <<>>]
                    ELSE collapsed
    /\ attested' = attested \cup Attestation(employeeId, reviewId, clearValue, signaturesOk)
    /\ UNCHANGED <<finalized, registered>>

TxCalculateFinalScore(employeeId) ==
    LET outcome == calculateFinalScore(employeeId) IN
    /\ Commit(outcome)
    /\ finalized' = IF outcome.err = "ok" THEN finalized \cup {employeeId} ELSE finalized
    /\ collapsed' = IF outcome.err = "ok"
                    THEN [collapsed EXCEPT ![employeeId] =
                             Append(@, employees[employeeId].totalScore)]
                    ELSE collapsed
    /\ UNCHANGED <<registered, attested>>

\* a view runs and returns or reverts; nothing is written
TxGetEmployee(employeeId) ==
    /\ getEmployee(employeeId).err \in {"ok", "NotFound"}
    /\ UNCHANGED vars

TxGetReview(employeeId, reviewId) ==
    /\ getReview(employeeId, reviewId).err \in {"ok", "NotFound"}
    /\ UNCHANGED vars

TxGetDepartmentEmployees(departmentId) ==
    /\ getDepartmentEmployees(departmentId).err = "ok"
    /\ UNCHANGED vars

\* the next block: block.timestamp grows
AdvanceTime ==
    /\ now < MaxTime
    /\ now' = now + 1
    /\ UNCHANGED <<employees, employeeExists, departmentEmployees, acl,
                   finalized, collapsed, txCount, registered, attested>>

\* the calls on the employee ids of ids, in runs of at most budget successful
\* transactions
NextOn(ids, budget) ==
    \/ \E e \in ids, n \in NamesTried, d \in DepartmentIds :
          /\ n \notin Names => employeeExists[e]
          /\ <<e, d>> \notin Registrations => employeeExists[e]
          /\ TxAddEmployee(e, n, d) /\ txCount' <= budget
    \/ \E sub \in Submissions, e \in ids, ok \in BOOLEAN, d \in DepartmentIds :
          TxSubmitReview(sub[1], e, sub[2], ok, sub[3], d) /\ txCount' <= budget
    \/ \E s \in Relayers, e \in ids, v \in ClearValues, ok \in BOOLEAN :
          \E r \in ReviewIdsOf(e) : TxVerifyReview(s, e, r, v, ok) /\ txCount' <= budget
    \/ \E e \in ids : TxCalculateFinalScore(e) /\ txCount' <= budget
    \/ \E e \in ids : TxGetEmployee(e)
    \/ \E e \in ids : \E r \in ReviewIdsOf(e) : TxGetReview(e, r)
    \/ \E d \in DepartmentIds : TxGetDepartmentEmployees(d)
    \/ AdvanceTime

Next == NextOn(EmployeeIds, MaxTx)

Spec == Init /\ [][Next]_vars

NextDeep == NextOn({"E1"}, MaxTxDeep)

SpecDeep == Init /\ [][NextDeep]_vars

---------------------------------------------------------------------------
\* Quantities the properties speak about

\* the review keys of an employee whose isVerified flag is set
VerifiedReviews(e) == { r \in ReviewIds : employees[e].reviews[r].isVerified }

RECURSIVE SumOver(_, _)
\* the sum of decryptedScore * weight over the reviews rs of employee e
SumOver(e, rs) ==
    IF rs = {} THEN 0
    ELSE LET r == CHOOSE x \in rs : TRUE IN
         employees[e].reviews[r].decryptedScore * employees[e].reviews[r].weight
           + SumOver(e, rs \ {r})

\* a review was submitted under the key (block.timestamp is never 0)
Submitted(e, r) == employees[e].reviews[r].timestamp # 0

\* Pending: submitted and not verified
Pending(e, r) == Submitted(e, r) /\ ~employees[e].reviews[r].isVerified

\* Verified: submitted and verified
Verified(e, r) == Submitted(e, r) /\ employees[e].reviews[r].isVerified

\* the outcome left the storage as it found it
NoChange(outcome) ==
    /\ outcome.employees = employees
    /\ outcome.employeeExists = employeeExists
    /\ outcome.departmentEmployees = departmentEmployees
    /\ outcome.acl = acl

---------------------------------------------------------------------------
\* C1: for every registered employee, reviewCount equals the number of the
\* employee's stored reviews whose verified flag is true, after any sequence
\* of calls.  (Stated as the claim has it; submitReview on a key that holds a
\* verified review clears the flag and leaves reviewCount, so it fails.)
C1_ReviewCountIsVerifiedCount ==
    \A e \in EmployeeIds :
        employeeExists[e] =>
            employees[e].reviewCount = Cardinality(VerifiedReviews(e))

\* C2: as long as calculateFinalScore has not succeeded for an employee, its
\* totalScore is the sum of decryptedScore * weight over its verified reviews.
\* (Stated as the claim has it; it fails for the same overwrite.)
C2_TotalIsWeightedSum ==
    \A e \in EmployeeIds :
        (employeeExists[e] /\ e \notin finalized) =>
            employees[e].totalScore = SumOver(e, VerifiedReviews(e))

\* C3: Verified is terminal: a review whose verified flag is true keeps the
\* flag and its decryptedScore in every step.  (Stated as the claim has it;
\* a submitReview deriving the same key sets it back to Pending.)
C3_VerifiedIsTerminal ==
    [][\A e \in EmployeeIds, r \in ReviewIds :
          Verified(e, r) =>
              /\ employees'[e].reviews[r].isVerified
              /\ employees'[e].reviews[r].decryptedScore =
                     employees[e].reviews[r].decryptedScore]_vars

\* C4: verifyReview on a review whose verified flag is already true fails
\* with AlreadyVerified whatever the claimed value and the verdict on the
\* attestation, and leaves the employee's totals and the review unchanged.
C4_ReverifyRejected ==
    \A s \in Senders, e \in EmployeeIds, r \in ReviewIds, v \in ClearValues,
       ok \in BOOLEAN :
        employees[e].reviews[r].isVerified =>
            LET out == verifyReview(s, e, r, v, ok) IN
            /\ out.err = "AlreadyVerified"
            /\ out.employees[e].totalScore = employees[e].totalScore
            /\ out.employees[e].reviewCount = employees[e].reviewCount
            /\ out.employees[e].reviews[r] = employees[e].reviews[r]

\* a submitted review has been verified, and verifying it again is rejected
\* although the attestation is accepted
C4_Witness ==
    \E e \in EmployeeIds, r \in ReviewIds :
        /\ Verified(e, r)
        /\ employees[e].reviewCount = 1
        /\ verifyReview("0xB", e, r, 6, TRUE).err = "AlreadyVerified"

\* C5: a successful verifyReview(e, r, v, _) on a Pending review of weight w
\* sets the review's decryptedScore to v and verified to true, adds v * w to
\* the employee's totalScore and 1 to its reviewCount, and changes no other
\* review, no other employee and no department index.
C5_VerifyEffect ==
    \A s \in Senders, e \in EmployeeIds, r \in ReviewIds, v \in ClearValues,
       ok \in BOOLEAN :
        LET out == verifyReview(s, e, r, v, ok)
            w == employees[e].reviews[r].weight
        IN
        (Pending(e, r) /\ out.err = "ok") =>
            /\ out.employees[e].reviews[r].decryptedScore = v
            /\ out.employees[e].reviews[r].isVerified = TRUE
            /\ \A f \in {"encryptedScore", "weight", "departmentId", "reviewer",
                         "timestamp"} :
                  out.employees[e].reviews[r][f] = employees[e].reviews[r][f]
            /\ out.employees[e].totalScore = employees[e].totalScore + v * w
            /\ out.employees[e].reviewCount = employees[e].reviewCount + 1
            /\ \A f \in {"employeeId", "name", "departmentId"} :
                  out.employees[e][f] = employees[e][f]
            /\ \A q \in ReviewIds \ {r} :
                  out.employees[e].reviews[q] = employees[e].reviews[q]
            /\ \A o \in EmployeeIds \ {e} : out.employees[o] = employees[o]
            /\ out.employeeExists = employeeExists
            /\ out.departmentEmployees = departmentEmployees

\* a Pending review of weight 3 has been verified with the score 8 while the
\* other employee is registered
C5_Witness ==
    \E e \in EmployeeIds, r \in ReviewIds :
        /\ Verified(e, r)
        /\ employees[e].reviews[r].weight = 3
        /\ employees[e].reviews[r].decryptedScore = 8
        /\ employees[e].totalScore = 24
        /\ employees[e].reviewCount = 1
        /\ \A o \in EmployeeIds : employeeExists[o]

\* C6: verifyReview for an existing employee with a reviewId under which no
\* review was ever submitted fails with NotFound whatever the verdict on the
\* attestation, leaves the employee's totals unchanged and creates no review
\* record.  (Stated as the claim has it; verifyReview has no existence check
\* on the review, so the call reaches checkSignatures with the zero handle.)
C6_UnknownReviewNotFound ==
    \A s \in Senders, e \in EmployeeIds, r \in ReviewIds, v \in ClearValues,
       ok \in BOOLEAN :
        (employeeExists[e] /\ employees[e].reviews[r] = DefaultReview) =>
            LET out == verifyReview(s, e, r, v, ok) IN
            /\ out.err = "NotFound"
            /\ out.employees[e].totalScore = employees[e].totalScore
            /\ out.employees[e].reviewCount = employees[e].reviewCount
            /\ out.employees[e].reviews[r] = DefaultReview

\* the service accepts a submission: the proof is not rejected and the handle
\* it yields is initialized
IngestAccepts(externalHandle, proofOk) ==
    /\ ~FromExternal(externalHandle, proofOk).reverted
    /\ IsInitialized(FromExternal(externalHandle, proofOk).handle)

\* C7 as claimed: a submission with weight > 0 for an existing employee and a
\* departmentId other than the employee's fails with DepartmentMismatch
\* whether or not the service would accept the submission proof, and creates
\* or overwrites no review.
C7_MismatchWhateverTheProof ==
    \A sub \in Submissions, e \in EmployeeIds, ok \in BOOLEAN, d \in DepartmentIds :
        (employeeExists[e] /\ sub[3] > 0 /\ d # employees[e].departmentId) =>
            LET out == submitReview(sub[1], e, sub[2], ok, sub[3], d) IN
            out.err = "DepartmentMismatch" /\ NoChange(out)

\* C7 as amended: such a submission always fails and creates or overwrites no
\* review; it fails with DepartmentMismatch when the service accepts the
\* submission proof and with InvalidProof when it rejects it, the ingest call
\* being evaluated before the department check.
C7_MismatchAfterIngest ==
    \A sub \in Submissions, e \in EmployeeIds, ok \in BOOLEAN, d \in DepartmentIds :
        (employeeExists[e] /\ sub[3] > 0 /\ d # employees[e].departmentId) =>
            LET out == submitReview(sub[1], e, sub[2], ok, sub[3], d) IN
            /\ out.err = IF IngestAccepts(sub[2], ok) THEN "DepartmentMismatch"
                         ELSE "InvalidProof"
            /\ NoChange(out)

\* an employee holds a Pending review under the key of the current timestamp,
\* and a submission for another department is refused both ways
C7_Witness ==
    \E e \in EmployeeIds, d \in DepartmentIds :
        /\ employeeExists[e]
        /\ d # employees[e].departmentId
        /\ Pending(e, DeriveReviewId(e, now))
        /\ submitReview("0xB", e, 2, TRUE, 3, d).err = "DepartmentMismatch"
        /\ submitReview("0xB", e, 2, FALSE, 3, d).err = "InvalidProof"

\* C8: a successful calculateFinalScore(e) with totalScore = T and
\* reviewCount = n > 0 sets totalScore to floor(T / n) and changes nothing
\* else: reviewCount, the reviews, the other employees, the department index.
C8_FinalScoreIsFloor ==
    \A e \in EmployeeIds :
        LET out == calculateFinalScore(e)
            T == employees[e].totalScore
            n == employees[e].reviewCount
            q == out.employees[e].totalScore
        IN
        out.err = "ok" =>
            /\ n > 0
            /\ n * q <= T
            /\ T < n * (q + 1)
            /\ out.employees = [employees EXCEPT ![e].totalScore = q]
            /\ out.employeeExists = employeeExists
            /\ out.departmentEmployees = departmentEmployees
            /\ out.acl = acl

\* a total that the count does not divide has been collapsed: 17 by 2 to 8,
\* the two reviews keeping their state
C8_Witness ==
    \E e \in EmployeeIds :
        /\ collapsed[e] # <<>>
        /\ collapsed[e][Len(collapsed[e])] = 17
        /\ employees[e].reviewCount = 2
        /\ employees[e].totalScore = 8
        /\ Cardinality({ r \in ReviewIds : Verified(e, r) }) = 2

\* C9: calculateFinalScore is destructive and not idempotent: after a first
\* successful call that found the total T and the count n, and with no
\* verification in between, a second call is not rejected and leaves
\* floor(floor(T / n) / n); with T = 34 and n = 2 the first call leaves 17 and
\* the second leaves 8.
C9_SecondCollapseDividesAgain ==
    \A e \in EmployeeIds :
        LET n == employees[e].reviewCount
            out == calculateFinalScore(e)
        IN
        /\ Len(collapsed[e]) >= 1 =>
              /\ employees[e].totalScore = collapsed[e][Len(collapsed[e])] \div n
              /\ out.err = "ok"
        /\ Len(collapsed[e]) = 1 =>
              out.employees[e].totalScore = (collapsed[e][1] \div n) \div n
        /\ Len(collapsed[e]) >= 2 =>
              employees[e].totalScore = (collapsed[e][Len(collapsed[e]) - 1] \div n) \div n
        /\ (Len(collapsed[e]) = 1 /\ collapsed[e][1] = 34 /\ n = 2) =>
              employees[e].totalScore = 17
        /\ (Len(collapsed[e]) = 2 /\ collapsed[e][1] = 34 /\ n = 2) =>
              employees[e].totalScore = 8

\* the scenario: 34 over 2 reviews collapsed twice, 17 and then 8
C9_Witness ==
    \E e \in EmployeeIds :
        /\ collapsed[e] = <<34, 17>>
        /\ employees[e].reviewCount = 2
        /\ employees[e].totalScore = 8

\* C10: calculateFinalScore for a registered employee whose reviewCount is 0
\* fails with EmptyAggregation and changes nothing; for an unregistered
\* employeeId it fails with NotFound.
C10_EmptyAggregationRejected ==
    \A e \in EmployeeIds :
        LET out == calculateFinalScore(e) IN
        /\ (employeeExists[e] /\ employees[e].reviewCount = 0) =>
              (out.err = "EmptyAggregation" /\ NoChange(out))
        /\ ~employeeExists[e] => (out.err = "NotFound" /\ NoChange(out))

\* one employee is registered and holds a Pending review but no verified one,
\* the other id is unregistered
C10_Witness ==
    \E e \in EmployeeIds, o \in EmployeeIds :
        /\ employeeExists[e]
        /\ employees[e].reviewCount = 0
        /\ \E r \in ReviewIds : Pending(e, r)
        /\ calculateFinalScore(e).err = "EmptyAggregation"
        /\ ~employeeExists[o]
        /\ calculateFinalScore(o).err = "NotFound"

---------------------------------------------------------------------------
\* C11: addEmployee with an id that is already registered fails with
\* AlreadyExists and changes nothing; with an unregistered id it succeeds,
\* the employee exists afterwards with the given name and department,
\* totalScore 0 and reviewCount 0, and the id is appended at the end of the
\* index of the given department, the rest of the storage being as before.
C11_AddEmployee ==
    \A e \in EmployeeIds, n \in NamesTried, d \in DepartmentIds :
        LET out == addEmployee(e, n, d) IN
        /\ employeeExists[e] => out.err = "AlreadyExists" /\ NoChange(out)
        /\ ~employeeExists[e] =>
              /\ out.err = "ok"
              /\ out.employeeExists = [employeeExists EXCEPT ![e] = TRUE]
              /\ out.employees[e].name = n
              /\ out.employees[e].departmentId = d
              /\ out.employees[e].totalScore = 0
              /\ out.employees[e].reviewCount = 0
              /\ out.employees[e].reviews = employees[e].reviews
              /\ \A o \in EmployeeIds \ {e} : out.employees[o] = employees[o]
              /\ out.departmentEmployees[d] = Append(departmentEmployees[d], e)
              /\ \A o \in DepartmentIds \ {d} :
                    out.departmentEmployees[o] = departmentEmployees[o]
              /\ out.acl = acl

\* both employees were added to department 10, E2 first, and adding E1 again
\* under another name and department is refused
C11_Witness ==
    /\ departmentEmployees[10] = <<"E2", "E1">>
    /\ employees["E1"].totalScore = 0 /\ employees["E1"].reviewCount = 0
    /\ addEmployee("E1", "Bob", 20).err = "AlreadyExists"

---------------------------------------------------------------------------
\* C12: a call that fails, whatever the error kind, leaves the whole storage
\* exactly as it was, so that every call made after it has the outcome it
\* would have had without the failed call.
C12_FailedCallsChangeNothing ==
    /\ \A e \in EmployeeIds, n \in NamesTried, d \in DepartmentIds :
          LET out == addEmployee(e, n, d) IN out.err # "ok" => NoChange(out)
    /\ \A sub \in Submissions, e \in EmployeeIds, ok \in BOOLEAN, d \in DepartmentIds :
          LET out == submitReview(sub[1], e, sub[2], ok, sub[3], d) IN
          out.err # "ok" => NoChange(out)
    /\ \A s \in Relayers, e \in EmployeeIds, v \in ClearValues, ok \in BOOLEAN :
          \A r \in ReviewIdsOf(e) :
          LET out == verifyReview(s, e, r, v, ok) IN out.err # "ok" => NoChange(out)
    /\ \A e \in EmployeeIds :
          LET out == calculateFinalScore(e) IN out.err # "ok" => NoChange(out)

\* E1 has a verified review and E2 is registered without any: calls fail with
\* AlreadyExists, InvalidInput, InvalidProof (rejected input proof, rejected
\* attestation), DepartmentMismatch, AlreadyVerified and EmptyAggregation
C12_Witness ==
    /\ Verified("E1", "E1_1") /\ employeeExists["E2"] /\ now = 1
    /\ addEmployee("E1", "Bob", 20).err = "AlreadyExists"
    /\ submitReview("0xB", "E1", 1, TRUE, 0, employees["E1"].departmentId).err = "InvalidInput"
    /\ submitReview("0xA", "E1", 1, FALSE, 2, employees["E1"].departmentId).err = "InvalidProof"
    /\ \E d \in DepartmentIds : submitReview("0xA", "E1", 1, TRUE, 2, d).err = "DepartmentMismatch"
    /\ verifyReview("0xA", "E2", "E2_1", 6, FALSE).err = "InvalidProof"
    /\ verifyReview("0xA", "E1", "E1_1", 6, TRUE).err = "AlreadyVerified"
    /\ calculateFinalScore("E2").err = "EmptyAggregation"

---------------------------------------------------------------------------
\* C13: getReview fails with NotFound when the employee is not registered and
\* also when the employee is registered but no review was ever submitted
\* under the review id; it returns a record only for a submitted review, and
\* then the record stored.  (Stated as the claim has it; getReview requires
\* the employee only and returns the zero record of an absent review.)
C13_GetReviewOfAbsentIsNotFound ==
    \A e \in EmployeeIds, r \in ReviewIds :
        LET review == employees[e].reviews[r] IN
        IF employeeExists[e] /\ Submitted(e, r)
        THEN getReview(e, r) =
               [ err   |-> "ok",
                 value |-> << review.weight, review.departmentId, review.reviewer,
                              review.timestamp, review.decryptedScore,
                              review.isVerified >> ]
        ELSE getReview(e, r).err = "NotFound"

---------------------------------------------------------------------------
\* C14: the index of each department lists exactly the registered employees
\* whose departmentId is that department, each once and in the order their
\* addEmployee calls succeeded, no id stands under two departments, and a
\* call leaves each index as it was or with one id appended.

\* the registered ids of a department in registration order
RegisteredIn(d) ==
    LET InDepartment(e) == employees[e].departmentId = d IN
    SelectSeq(registered, InDepartment)

\* the array is left as it was or longer by one element at its end
AppendedOrSame(before, after) ==
    \/ after = before
    \/ \E e \in EmployeeIds : after = Append(before, e)

C14_DepartmentIndex ==
    /\ \A d \in DepartmentIds :
          /\ departmentEmployees[d] = RegisteredIn(d)
          /\ getDepartmentEmployees(d) = [err |-> "ok", value |-> RegisteredIn(d)]
          /\ \A i, j \in 1 .. Len(departmentEmployees[d]) :
                departmentEmployees[d][i] = departmentEmployees[d][j] => i = j
          /\ { departmentEmployees[d][i] : i \in 1 .. Len(departmentEmployees[d]) }
                = { e \in EmployeeIds : employeeExists[e] /\ employees[e].departmentId = d }
    /\ \A d1, d2 \in DepartmentIds :
          \A i \in 1 .. Len(departmentEmployees[d1]), j \in 1 .. Len(departmentEmployees[d2]) :
              departmentEmployees[d1][i] = departmentEmployees[d2][j] => d1 = d2
    /\ \A e \in EmployeeIds, n \in NamesTried, o \in DepartmentIds :
          LET out == addEmployee(e, n, o) IN
          \A d \in DepartmentIds :
              AppendedOrSame(departmentEmployees[d], out.departmentEmployees[d])
    /\ \A sub \in Submissions, e \in EmployeeIds, ok \in BOOLEAN, o \in DepartmentIds :
          submitReview(sub[1], e, sub[2], ok, sub[3], o).departmentEmployees
            = departmentEmployees
    /\ \A s \in Relayers, e \in EmployeeIds, v \in ClearValues, ok \in BOOLEAN :
          \A r \in ReviewIdsOf(e) :
          verifyReview(s, e, r, v, ok).departmentEmployees = departmentEmployees
    /\ \A e \in EmployeeIds :
          calculateFinalScore(e).departmentEmployees = departmentEmployees

\* E1 then E2 were added to department 10, which lists them in that order
C14_Witness ==
    /\ registered = <<"E1", "E2">>
    /\ getDepartmentEmployees(10).value = <<"E1", "E2">>
    /\ departmentEmployees[20] = <<>>

---------------------------------------------------------------------------
\* C15: a successful submitReview writes exactly one review, the one under
\* the key derived from the employee id and the current block.timestamp, and
\* leaves it Pending (isVerified false, decryptedScore 0) with the submitted
\* handle, weight and departmentId, the caller as reviewer and the current
\* timestamp; totalScore and reviewCount of every employee, every other
\* review, the registrations and the department index are as before.  The
\* handle is published to the ACL.
C15_SubmitEffect ==
    \A sub \in Submissions, e \in EmployeeIds, ok \in BOOLEAN, d \in DepartmentIds :
        LET out == submitReview(sub[1], e, sub[2], ok, sub[3], d)
            key == DeriveReviewId(e, now)
        IN
        out.err = "ok" =>
          /\ out.employees[e].reviews[key] =
                [ encryptedScore |-> sub[2],
                  weight         |-> sub[3],
                  departmentId   |-> d,
                  reviewer       |-> sub[1],
                  timestamp      |-> now,
                  decryptedScore |-> 0,
                  isVerified     |-> FALSE ]
          /\ \A o \in EmployeeIds, r \in ReviewIds :
                <<o, r>> # <<e, key>> =>
                   out.employees[o].reviews[r] = employees[o].reviews[r]
          /\ \A o \in EmployeeIds :
                /\ out.employees[o].totalScore = employees[o].totalScore
                /\ out.employees[o].reviewCount = employees[o].reviewCount
                /\ out.employees[o].name = employees[o].name
                /\ out.employees[o].employeeId = employees[o].employeeId
                /\ out.employees[o].departmentId = employees[o].departmentId
          /\ out.employeeExists = employeeExists
          /\ out.departmentEmployees = departmentEmployees
          /\ out.acl = Publish(acl, sub[2])

\* E1's review of time 1 was verified (total 16, count 1) and 0xB's submission
\* of time 2 is stored Pending beside it, and one more submission at time 2
\* would overwrite that one
C15_Witness ==
    /\ Verified("E1", "E1_1")
    /\ employees["E1"].totalScore = 16 /\ employees["E1"].reviewCount = 1
    /\ now = 2
    /\ employees["E1"].reviews["E1_2"] =
          [ encryptedScore |-> 2, weight |-> 3,
            departmentId |-> employees["E1"].departmentId, reviewer |-> "0xB",
            timestamp |-> 2, decryptedScore |-> 0, isVerified |-> FALSE ]
    /\ submitReview("0xA", "E1", 1, TRUE, 2, employees["E1"].departmentId).err = "ok"

---------------------------------------------------------------------------
\* C16: every review record stored under an employee, Pending or Verified,
\* was created by a successful submitReview for that registered employee:
\* it carries a timestamp, a weight above 0 and the departmentId of the
\* employee it is stored under.  (Stated as the claim has it; verifyReview
\* on a key nothing was submitted under stores a verified record of weight
\* 0, so it fails.)
C16_RecordsComeFromSubmit ==
    \A e \in EmployeeIds, r \in ReviewIds :
        employees[e].reviews[r] # DefaultReview =>
          /\ employeeExists[e]
          /\ Submitted(e, r)
          /\ employees[e].reviews[r].weight > 0
          /\ employees[e].reviews[r].departmentId = employees[e].departmentId

---------------------------------------------------------------------------
\* C17: a registered employee stays registered and keeps its id, name and
\* departmentId through every call, getEmployee succeeds for it and returns
\* them with the totals, and its totalScore and reviewCount are changed by
\* no call other than verifyReview and calculateFinalScore.

\* the outcome keeps employee e registered with the same identity
KeepsIdentity(e, out) ==
    /\ out.employeeExists[e]
    /\ out.employees[e].employeeId = employees[e].employeeId
    /\ out.employees[e].name = employees[e].name
    /\ out.employees[e].departmentId = employees[e].departmentId

\* the outcome keeps the totals of employee e
KeepsTotals(e, out) ==
    /\ out.employees[e].totalScore = employees[e].totalScore
    /\ out.employees[e].reviewCount = employees[e].reviewCount

\* the employees registered before the call
Registered == { e \in EmployeeIds : employeeExists[e] }

C17_EmployeeIdentityIsPermanent ==
    /\ \A e \in Registered :
          /\ employees[e].employeeId = e
          /\ employees[e].name \in Names
          /\ employees[e].departmentId \in DepartmentIds
          /\ getEmployee(e) =
                [ err   |-> "ok",
                  value |-> << employees[e].name, employees[e].totalScore,
                               employees[e].reviewCount, employees[e].departmentId >> ]
    /\ \A o \in EmployeeIds, n \in NamesTried, d \in DepartmentIds :
          LET out == addEmployee(o, n, d) IN
          \A e \in Registered : KeepsIdentity(e, out) /\ KeepsTotals(e, out)
    /\ \A sub \in Submissions, o \in EmployeeIds, ok \in BOOLEAN, d \in DepartmentIds :
          LET out == submitReview(sub[1], o, sub[2], ok, sub[3], d) IN
          \A e \in Registered : KeepsIdentity(e, out) /\ KeepsTotals(e, out)
    /\ \A s \in Relayers, o \in EmployeeIds, v \in ClearValues, ok \in BOOLEAN :
          \A r \in ReviewIdsOf(o) :
          LET out == verifyReview(s, o, r, v, ok) IN
          \A e \in Registered : KeepsIdentity(e, out) /\ (o # e => KeepsTotals(e, out))
    /\ \A o \in EmployeeIds :
          LET out == calculateFinalScore(o) IN
          \A e \in Registered : KeepsIdentity(e, out) /\ (o # e => KeepsTotals(e, out))

\* E1, registered as Alice of department 10, has had a review verified and
\* its score finalized: the totals moved, the identity did not, and a second
\* registration under another name and department is refused
C17_Witness ==
    /\ "E1" \in finalized
    /\ getEmployee("E1") = [err |-> "ok", value |-> <<"Alice", 24, 1, 10>>]
    /\ registered[1] = "E1"
    /\ addEmployee("E1", "Bob", 20).err = "AlreadyExists"

---------------------------------------------------------------------------
\* C18: a review becomes verified only in a verifyReview call for that review
\* in which FHE.checkSignatures accepted the attestation of the claimed value
\* for the review's stored handle, and it then holds that value; when the
\* service rejects, the call fails with InvalidProof and the review stays
\* unverified with decryptedScore 0 and the totals as they were.  Hence the
\* decryptedScore of every verified review is a value the service attested
\* for the handle the review holds, and an unverified review has none.

\* the reviews that are verified in the outcome and were not before
NewlyVerified(out) ==
    { x \in EmployeeIds \X ReviewIds :
        /\ out.employees[x[1]].reviews[x[2]].isVerified
        /\ ~employees[x[1]].reviews[x[2]].isVerified }

\* the outcome verifies no review: a failed call leaves the employees as they
\* were, a successful one none newly verified
VerifiesNothing(out) ==
    IF out.err = "ok" THEN NewlyVerified(out) = {} ELSE out.employees = employees

C18_VerifiedMeansAttested ==
    /\ \A e \in EmployeeIds, r \in ReviewIds :
          LET review == employees[e].reviews[r] IN
          /\ review.isVerified => <<review.encryptedScore, review.decryptedScore>> \in attested
          /\ ~review.isVerified => review.decryptedScore = 0
    /\ \A e \in EmployeeIds, n \in NamesTried, d \in DepartmentIds :
          VerifiesNothing(addEmployee(e, n, d))
    /\ \A sub \in Submissions, e \in EmployeeIds, ok \in BOOLEAN, d \in DepartmentIds :
          VerifiesNothing(submitReview(sub[1], e, sub[2], ok, sub[3], d))
    /\ \A e \in EmployeeIds : VerifiesNothing(calculateFinalScore(e))
    /\ \A s \in Relayers, e \in EmployeeIds, v \in ClearValues, ok \in BOOLEAN :
          \A r \in ReviewIdsOf(e) :
          LET out == verifyReview(s, e, r, v, ok)
              review == employees[e].reviews[r]
          IN
          /\ out.err # "ok" => out.employees = employees
          /\ out.err = "ok" => NewlyVerified(out) = { <<e, r>> }
          /\ out.err = "ok" =>
                /\ ok
                /\ Attestation(e, r, v, ok) = { <<review.encryptedScore, v>> }
                /\ out.employees[e].reviews[r].encryptedScore = review.encryptedScore
                /\ out.employees[e].reviews[r].decryptedScore = v
          /\ (employeeExists[e] /\ ~review.isVerified /\ ~ok) =>
                out.err = "InvalidProof" /\ NoChange(out)

\* E1's review of time 1 (handle 1) is verified with the attested value 6,
\* its review of time 2 is Pending, and a verification of that one with a
\* rejected attestation fails with InvalidProof
C18_Witness ==
    /\ Verified("E1", "E1_1")
    /\ employees["E1"].reviews["E1_1"].encryptedScore = 1
    /\ employees["E1"].reviews["E1_1"].decryptedScore = 6
    /\ attested = { <<1, 6>> }
    /\ Pending("E1", "E1_2")
    /\ verifyReview("0xA", "E1", "E1_2", 8, FALSE).err = "InvalidProof"

---------------------------------------------------------------------------
\* C19: successful submissions that differ in the employee or in the
\* timestamp are stored under distinct keys and coexist: a successful
\* submitReview leaves every Pending review of another employee or of
\* another timestamp as it was, beside the Pending review it stores, also
\* when the other employee's review has the same timestamp; a submission
\* for the same employee at the same timestamp replaces the stored review,
\* which then holds the later submission's handle, weight and reviewer.

\* the stored reviews <<employee, key>> of a storage
SubmittedIn(emps) ==
    { x \in EmployeeIds \X ReviewIds : emps[x[1]].reviews[x[2]].timestamp # 0 }

C19_SubmissionsCoexistOrReplace ==
    /\ \A e \in EmployeeIds, t1, t2 \in Times :
          DeriveReviewId(e, t1) = DeriveReviewId(e, t2) => t1 = t2
    /\ \A x \in SubmittedIn(employees) :
          x[2] = DeriveReviewId(x[1], employees[x[1]].reviews[x[2]].timestamp)
    /\ \A sub \in Submissions, e \in EmployeeIds, ok \in BOOLEAN, d \in DepartmentIds :
          LET out == submitReview(sub[1], e, sub[2], ok, sub[3], d)
              key == DeriveReviewId(e, now)
              stored == out.employees[e].reviews[key]
          IN
          out.err = "ok" =>
            /\ ~stored.isVerified
            /\ stored.encryptedScore = sub[2]
            /\ stored.weight = sub[3]
            /\ stored.reviewer = sub[1]
            /\ \A x \in SubmittedIn(employees) :
                  (x[1] # e \/ employees[x[1]].reviews[x[2]].timestamp # now) =>
                     /\ x # <<e, key>>
                     /\ out.employees[x[1]].reviews[x[2]] = employees[x[1]].reviews[x[2]]
            /\ SubmittedIn(out.employees) = SubmittedIn(employees) \cup { <<e, key>> }
            /\ Cardinality(SubmittedIn(out.employees)) =
                  Cardinality(SubmittedIn(employees))
                    + (IF employees[e].reviews[key].timestamp = now THEN 0 ELSE 1)

\* E1 and E2 each have a Pending review submitted at time 1, with different
\* handles, and 0xB's submission for E1 at the same time would replace E1's
C19_Witness ==
    /\ now = 1
    /\ Pending("E1", "E1_1") /\ Pending("E2", "E2_1")
    /\ employees["E1"].reviews["E1_1"].timestamp = 1
    /\ employees["E2"].reviews["E2_1"].timestamp = 1
    /\ employees["E1"].reviews["E1_1"].encryptedScore = 1
    /\ employees["E2"].reviews["E2_1"].encryptedScore = 2
    /\ submitReview("0xB", "E1", 2, TRUE, 3, employees["E1"].departmentId).err = "ok"

---------------------------------------------------------------------------
\* C20: the accumulation does not depend on the order of verification: for
\* any set of Pending reviews of one employee with a fixed attested value
\* each, the verifyReview calls succeed in one order exactly if they succeed
\* in every order, and every order leaves the same totalScore and
\* reviewCount (and the same reviews).

RECURSIVE VerifyInOrder(_, _)
\* the Employee after the verifyReview calls <<reviewId, clearValue>> of calls,
\* made in that order with accepted attestations and nothing in between, up
\* to the first call that fails
VerifyInOrder(employee, calls) ==
    IF calls = <<>> THEN [err |-> "ok", employee |-> employee]
    ELSE LET err == VerifyChecks(employee, Head(calls)[1], Head(calls)[2], TRUE) IN
         IF err # "ok" THEN [err |-> err, employee |-> employee]
         ELSE VerifyInOrder(VerifiedEmployee(employee, Head(calls)[1], Head(calls)[2]),
                            Tail(calls))

\* the orders in which the reviews of rs can be taken
Orders(rs) ==
    { p \in [1 .. Cardinality(rs) -> rs] :
        \A i, j \in 1 .. Cardinality(rs) : p[i] = p[j] => i = j }

\* the calls for the reviews in order p with the values of val
CallsOf(p, val) == [i \in DOMAIN p |-> <<p[i], val[p[i]]>>]

C20_VerificationOrderIsIrrelevant ==
    \A e \in EmployeeIds :
        employeeExists[e] =>
          /\ \A r \in ReviewIds, v \in ClearValues, s \in Relayers :
                LET one == VerifyInOrder(employees[e], << <<r, v>> >>)
                    out == verifyReview(s, e, r, v, TRUE)
                IN one.err = out.err /\ one.employee = out.employees[e]
          /\ \A rs \in SUBSET { r \in ReviewIds : Pending(e, r) } :
                \A val \in [rs -> ClearValues] :
                  LET p == CHOOSE o \in Orders(rs) : TRUE
                      a == VerifyInOrder(employees[e], CallsOf(p, val))
                  IN
                  \A q \in Orders(rs) :
                    LET b == VerifyInOrder(employees[e], CallsOf(q, val)) IN
                    /\ a.err = "ok" <=> b.err = "ok"
                    /\ a.err = "ok" =>
                          /\ a.employee.totalScore = b.employee.totalScore
                          /\ a.employee.reviewCount = b.employee.reviewCount
                          /\ a.employee = b.employee
                          /\ a.employee.reviewCount
                                = employees[e].reviewCount + Cardinality(rs)

\* E1's reviews of time 1 (weight 2) and of time 2 (weight 3) were both
\* verified, with 6 and 8, in either order: 6 * 2 + 8 * 3 = 36 over 2 reviews
C20_Witness ==
    /\ Verified("E1", "E1_1") /\ Verified("E1", "E1_2")
    /\ employees["E1"].reviews["E1_1"].weight = 2
    /\ employees["E1"].reviews["E1_1"].decryptedScore = 6
    /\ employees["E1"].reviews["E1_2"].weight = 3
    /\ employees["E1"].reviews["E1_2"].decryptedScore = 8
    /\ employees["E1"].totalScore = 36 /\ employees["E1"].reviewCount = 2
    /\ attested = { <<1, 6>>, <<2, 8>> }
    /\ finalized = {}

---------------------------------------------------------------------------
\* C21: verifyReview does not depend on msg.sender: from one storage and with
\* one employeeId, reviewId, clear value and attestation verdict, the call
\* made by the review's reviewer and the call made by any other account have
\* the same error kind and leave the same storage.

\* the accounts a call can come from
Callers == Senders \cup Relayers

C21_VerifyIgnoresCaller ==
    \A e \in EmployeeIds, v \in ClearValues, ok \in BOOLEAN :
        \A r \in ReviewIdsOf(e) :
          LET reviewer == employees[e].reviews[r].reviewer
              byReviewer == verifyReview(reviewer, e, r, v, ok)
          IN
          \A s \in Callers : verifyReview(s, e, r, v, ok) = byReviewer

\* E1's review by 0xA was verified by the relayer, and its Pending review by
\* 0xB can be verified by 0xB, by 0xA and by the relayer alike
C21_Witness ==
    /\ Verified("E1", "E1_1") /\ employees["E1"].reviews["E1_1"].reviewer = "0xA"
    /\ Pending("E1", "E1_2") /\ employees["E1"].reviews["E1_2"].reviewer = "0xB"
    /\ \A s \in Callers : verifyReview(s, "E1", "E1_2", 8, TRUE).err = "ok"
    /\ verifyReview("0xA", "E1", "E1_2", 8, TRUE).employees["E1"].totalScore
          = employees["E1"].totalScore + 24

---------------------------------------------------------------------------
\* C22: publication precedes attestation: the handle a verifyReview call
\* passes to FHE.checkSignatures is the handle of a review stored by an
\* earlier successful submitReview, which made it publicly decryptable, and
\* no review is verified on a handle that was never ingested and published.
\* (Stated as the claim has it; verifyReview on a key nothing was submitted
\* under passes the zero handle, so it fails.)
C22_PublishedBeforeAttested ==
    /\ \A e \in EmployeeIds, v \in ClearValues, ok \in BOOLEAN :
          \A r \in ReviewIdsOf(e) :
            LET review == employees[e].reviews[r] IN
            (employeeExists[e] /\ ~review.isVerified) =>
               /\ Submitted(e, r)
               /\ review.encryptedScore \in acl.publiclyDecryptable
    /\ \A att \in attested : att[1] \in acl.publiclyDecryptable
    /\ \A e \in EmployeeIds, r \in ReviewIds :
          employees[e].reviews[r].isVerified =>
             employees[e].reviews[r].encryptedScore \in acl.publiclyDecryptable

---------------------------------------------------------------------------
\* C23: a successful calculateFinalScore does not close the employee: after
\* it, verifyReview of a Pending review of that employee with an accepted
\* attestation still succeeds (short of an overflow), adding value * weight
\* to the collapsed totalScore and 1 to reviewCount, and calculateFinalScore
\* still succeeds and divides the totalScore it finds, collapsed average and
\* later weighted scores together, by the full reviewCount.
C23_FinalizedStaysOpen ==
    \A e \in finalized :
        /\ employeeExists[e]
        /\ employees[e].reviewCount > 0
        /\ \A s \in Relayers, v \in ClearValues, r \in ReviewIdsOf(e) :
              Pending(e, r) =>
                LET out == verifyReview(s, e, r, v, TRUE)
                    sum == employees[e].totalScore + v * employees[e].reviews[r].weight
                IN
                IF sum > MaxUint THEN out.err = "Panic"
                ELSE /\ out.err = "ok"
                     /\ out.employees[e].totalScore = sum
                     /\ out.employees[e].reviewCount = employees[e].reviewCount + 1
                     /\ out.employees[e].reviews[r].isVerified
        /\ LET out == calculateFinalScore(e) IN
           /\ out.err = "ok"
           /\ out.employees[e].totalScore =
                 employees[e].totalScore \div employees[e].reviewCount
           /\ out.employees[e].reviewCount = employees[e].reviewCount

\* E1's first review (6 * 2) was verified and finalized to 12, its second
\* (8 * 3) was verified after that: totalScore 36 over 2 reviews, which the
\* next calculateFinalScore turns into 18
C23_Witness ==
    /\ "E1" \in finalized /\ collapsed["E1"] = <<>>
    /\ Verified("E1", "E1_1") /\ Verified("E1", "E1_2")
    /\ employees["E1"].totalScore = 36 /\ employees["E1"].reviewCount = 2
    /\ calculateFinalScore("E1").employees["E1"].totalScore = 18

---------------------------------------------------------------------------
\* C24: totalScore never wraps around: a verifyReview whose value * weight or
\* whose totalScore + value * weight exceeds the largest word fails and
\* changes nothing, the review staying as it was; a verifyReview that
\* succeeds leaves exactly totalScore + value * weight and a
\* calculateFinalScore exactly the quotient, so that totalScore and
\* reviewCount are at every moment within the word.
C24_NoWrapAround ==
    /\ \A e \in EmployeeIds :
          /\ employees[e].totalScore \in 0 .. MaxUint
          /\ employees[e].reviewCount \in 0 .. MaxUint
    /\ \A s \in Relayers, e \in EmployeeIds, v \in ValuesTried :
          \A r \in ReviewIdsOf(e) :
            LET out == verifyReview(s, e, r, v, TRUE)
                review == employees[e].reviews[r]
                product == v * review.weight
                sum == employees[e].totalScore + product
            IN
            /\ (employeeExists[e] /\ ~review.isVerified
                  /\ (product > MaxUint \/ sum > MaxUint)) =>
                  out.err = "Panic" /\ NoChange(out)
            /\ out.err = "ok" =>
                  /\ sum <= MaxUint
                  /\ out.employees[e].totalScore = sum
    /\ \A e \in EmployeeIds :
          LET out == calculateFinalScore(e) IN
          out.err = "ok" =>
             /\ out.employees[e].totalScore * employees[e].reviewCount
                   <= employees[e].totalScore
             /\ employees[e].totalScore
                   < (out.employees[e].totalScore + 1) * employees[e].reviewCount

\* E1 has 40 from two verifications (16, then 24 after a second submission
\* under the same key) and a Pending review of weight 3: verifying it with 8
\* would give 64, and with BigValue the product alone exceeds the word; both
\* calls panic
C24_Witness ==
    /\ employees["E1"].totalScore = 40 /\ employees["E1"].reviewCount = 2
    /\ \E r \in ReviewIdsOf("E1") :
          /\ Pending("E1", r) /\ employees["E1"].reviews[r].weight = 3
          /\ verifyReview("0xC", "E1", r, 8, TRUE).err = "Panic"
          /\ verifyReview("0xC", "E1", r, 6, TRUE).err = "ok"
          /\ BigValue * 3 > MaxUint
          /\ verifyReview("0xC", "E1", r, BigValue, TRUE).err = "Panic"

---------------------------------------------------------------------------
\* C25: every review that is not verified has decryptedScore 0; the handle,
\* weight, departmentId, reviewer and timestamp of a Pending review are
\* changed by no call except a submitReview for the same employee at the
\* review's own timestamp; verifyReview changes of a review only
\* decryptedScore and isVerified; and no call other than these two changes a
\* Pending review at all, so that it stays Pending as long as it is neither
\* verified nor replaced.

\* the fields of a review written by submitReview only
Submission(review) ==
    << review.encryptedScore, review.weight, review.departmentId,
       review.reviewer, review.timestamp >>

\* the Pending reviews <<employee, key>>
PendingReviews == { x \in EmployeeIds \X ReviewIds : Pending(x[1], x[2]) }

\* the outcome holds the reviews of xs as the storage does
KeepsReviews(out, xs) ==
    \A x \in xs : out.employees[x[1]].reviews[x[2]] = employees[x[1]].reviews[x[2]]

C25_PendingFrame ==
    LET pending == PendingReviews IN
    /\ \A e \in EmployeeIds, r \in ReviewIds :
          ~employees[e].reviews[r].isVerified => employees[e].reviews[r].decryptedScore = 0
    /\ \A e \in EmployeeIds, n \in NamesTried, d \in DepartmentIds :
          KeepsReviews(addEmployee(e, n, d), pending)
    /\ \A e \in EmployeeIds :
          KeepsReviews(calculateFinalScore(e), pending)
    /\ \A e \in EmployeeIds :
          LET others == { x \in pending :
                            ~(x[1] = e /\ employees[e].reviews[x[2]].timestamp = now) }
          IN
          \A sub \in Submissions, ok \in BOOLEAN, d \in DepartmentIds :
              KeepsReviews(submitReview(sub[1], e, sub[2], ok, sub[3], d), others)
    /\ \A s \in Relayers, e \in EmployeeIds, v \in ClearValues, ok \in BOOLEAN :
          \A r \in ReviewIdsOf(e) :
            LET out == verifyReview(s, e, r, v, ok) IN
            /\ KeepsReviews(out, pending \ { <<e, r>> })
            /\ Submission(out.employees[e].reviews[r]) = Submission(employees[e].reviews[r])

\* E1's review of time 1 is still Pending, as submitted by 0xA, at time 2,
\* after a second review was submitted and verified
C25_Witness ==
    /\ now = 2
    /\ Submission(employees["E1"].reviews["E1_1"])
          = <<1, 2, employees["E1"].departmentId, "0xA", 1>>
    /\ Pending("E1", "E1_1")
    /\ employees["E1"].reviews["E1_1"].decryptedScore = 0
    /\ Verified("E1", "E1_2")
    /\ employees["E1"].reviewCount = 1

====
